---- MODULE Spec2Model ----
(***************************************************************************)
(* RouterBatchedRebuild of akanda/rug/cli/router.py: the batch driver      *)
(* (take_action), the worker pool (spawn_threads) and the convergence      *)
(* worker (check_alive), sharing the class-level deques `queue` and        *)
(* `active` and the event THREAD_SHUTDOWN.                                 *)
(*                                                                         *)
(* Every step is one atomic operation on the shared state (a deque call,   *)
(* a read of the event) together with the thread-local code around it.     *)
(* Answers of the neutron and nova clients are inputs, drawn with \E.      *)
(***************************************************************************)
EXTENDS Integers, Sequences, FiniteSets, TLC

\* ---- bounds of the model ----
MaxRouters == 2       \* longest router listing explored
MaxBatch == 2         \* largest --batch explored
MaxErrors == 1        \* exceptions raised inside workers over a run
MaxInterrupts == 2    \* KeyboardInterrupts delivered over a run
MaxScript == 4        \* most answers a scripted get_instance gives to polls
MaxList == 6          \* longest list given to chunked by itself
MaxChunk == 4         \* largest chunk size given to chunked by itself

\* multiprocessing.cpu_count() of the host
CpuCount == 2

NoRouter == 0         \* Python None for a router variable
NoId == 0             \* Python None for an instance id
InstanceIds == {1, 2} \* 1: the instance before the rebuild, 2: its replacement

VARIABLES
    pc,         \* position of the driver in take_action
    routers,    \* neutron.list_routers()['routers'], as router ids
    batch,      \* parsed_args.batch
    ci,         \* i of enumerate(chunked(routers, batch))
    ri,         \* position of `for router in chunk`
    rebooting,  \* the list rebooting
    bi,         \* position of `for router in rebooting`
    total,      \* the local total
    queue,      \* RouterBatchedRebuild.queue
    active,     \* RouterBatchedRebuild.active
    shutdown,   \* RouterBatchedRebuild.THREAD_SHUTDOWN.is_set()
    ji,         \* position of `for t in threads: t.join()`
    wpc,        \* position of each worker thread in check_alive
    wrouter,    \* check_alive's local router
    wold,       \* check_alive's local old_uuid
    wpop,       \* pop()'s local router
    noVM,       \* routers reported "No VM found for ..."
    upToDate,   \* routers reported "... is already up-to-date, skipping!"
    rebuilding, \* routers reported "Rebuilding ..."
    rebuilt,    \* per router, calls of app.run([... 'router', 'rebuild', id])
    enq,        \* per router, times the driver put it on queue
    errs,       \* exceptions raised inside workers so far
    intr,       \* KeyboardInterrupts delivered so far
    script,     \* the scripted clients of the check_alive unit tests
    cloud       \* per router, the instance and router the clients report

vars == <<pc, routers, batch, ci, ri, rebooting, bi, total, queue, active,
          shutdown, ji, wpc, wrouter, wold, wpop, noVM, upToDate,
          rebuilding, rebuilt, enq, errs, intr, script, cloud>>

drv == <<pc, routers, batch, ci, ri, rebooting, bi, total, ji, noVM,
         upToDate, rebuilding, rebuilt, enq, intr>>
wrk == <<wpc, wrouter, wold, wpop, errs, script, cloud>>

Min(a, b) == IF a < b THEN a ELSE b

RouterIds == 1..MaxRouters
Threads == 1..Min(MaxBatch, CpuCount)

\* Slice that leaves out the first element: l[a+1:b]
Slice_Short(l, a, b) == SubSeq(l, a + 2, Min(b, Len(l)))

\* l[a:b] of Python, on a 1-based sequence
Slice(l, a, b) == SubSeq(l, a + 1, Min(b, Len(l)))

RECURSIVE chunkedFrom(_, _, _)
chunkedFrom(l, n, i) ==
    IF i >= Len(l) THEN <<>>
    ELSE <<Slice(l, i, i + n)>> \o chunkedFrom(l, n, i + n)

\* for i in xrange(0, len(l), n): yield l[i:i+n]
chunked(l, n) == chunkedFrom(l, n, 0)

chunks == chunked(routers, batch)
\* the chunk of the current iteration of the for loop
chunk == chunks[ci + 1]

Range(s) == {s[k] : k \in 1..Len(s)}

\* No simulated cloud: the clients answer anything (the \E of the actions).
NoCloud == <<>>

\* No scripted client: the clients answer anything (the \E of the actions).
NoScript == [answers |-> <<>>, pos |-> 0, show |-> "-", old |-> NoId]

\* min(max_threads, multiprocessing.cpu_count())
NumThreads(max_threads) == Min(max_threads, CpuCount)

Init ==
    /\ pc = "init"
    /\ routers = <<>>
    /\ batch = 1
    /\ ci = 0
    /\ ri = 1
    /\ rebooting = <<>>
    /\ bi = 1
    /\ total = 0
    /\ queue = <<>>
    /\ active = <<>>
    /\ shutdown = FALSE
    /\ ji = 1
    /\ wpc = [w \in Threads |-> "idle"]
    /\ wrouter = [w \in Threads |-> NoRouter]
    /\ wold = [w \in Threads |-> NoId]
    /\ wpop = [w \in Threads |-> NoRouter]
    /\ noVM = {}
    /\ upToDate = {}
    /\ rebuilding = {}
    /\ rebuilt = [r \in RouterIds |-> 0]
    /\ enq = [r \in RouterIds |-> 0]
    /\ errs = 0
    /\ intr = 0
    /\ script = NoScript
    /\ cloud = NoCloud

\* The process is alive: take_action has neither returned nor been left by
\* an uncaught exception (worker threads are daemons and end with it).
Running == pc \notin {"init", "done", "crashed"}

(***************************************************************************)
(* The batch driver: take_action                                           *)
(***************************************************************************)

\* threads = self.spawn_threads(batch); routers = list_routers()['routers']
D_Start ==
    /\ pc = "init"
    /\ \E n \in 0..MaxRouters, b \in 1..MaxBatch :
        /\ routers' = [k \in 1..n |-> k]
        /\ batch' = b
        /\ wpc' = [w \in Threads |->
                     IF w <= NumThreads(b) THEN "pop_check" ELSE "idle"]
    /\ ci' = 0
    /\ pc' = "for"
    /\ UNCHANGED <<ri, rebooting, bi, total, queue, active, shutdown, ji,
                   wrouter, wold, wpop, noVM, upToDate, rebuilding, rebuilt,
                   enq, errs, intr, script, cloud>>

\* the next iteration of the for loop over the chunks: self.queue.clear()
D_NextChunk ==
    /\ pc = "for"
    /\ IF ci >= Len(chunks)
       THEN /\ pc' = "shutdown"
            /\ UNCHANGED queue
       ELSE /\ queue' = <<>>
            /\ pc' = "clear_active"
    /\ UNCHANGED <<routers, batch, ci, ri, rebooting, bi, total, active,
                   shutdown, ji, noVM, upToDate, rebuilding, rebuilt, enq, intr>>
    /\ UNCHANGED wrk

\* self.active.clear(); rebooting = []
D_ClearActive ==
    /\ pc = "clear_active"
    /\ active' = <<>>
    /\ rebooting' = <<>>
    /\ ri' = 1
    /\ pc' = "resolve"
    /\ UNCHANGED <<routers, batch, ci, bi, total, queue, shutdown, ji, noVM,
                   upToDate, rebuilding, rebuilt, enq, intr>>
    /\ UNCHANGED wrk

\* What self.get_instance(router) answers the driver: no server, a server
\* whose image is router_image_uuid, a server with another image, or an
\* exception of the client.
ResolveAnswers == {"none", "latest", "outdated", "raise"}

\* Marked with the `continue` of the elif branch also in the `if not server`
\* branch
Marked_SkipMissing(server) == server = "outdated"

\* Marked with the `continue` of the elif branch left out
Marked_All(server) == TRUE

\* Marked with the test of the elif branch inverted
Marked_OnlyMissing(server) == server = "none"

\* lines 215-225: the router is appended to rebooting unless the `continue`
\* of the elif branch is taken (the `if not server` branch has none)
Marked(server) == server # "latest"

\* one iteration of `for router in chunk`, get_instance answering server
ResolveWith(server) ==
    /\ pc = "resolve"
    /\ ri <= Len(chunk)
    /\ LET router == chunk[ri] IN
       IF server = "raise"
       THEN /\ pc' = "crashed"
            /\ UNCHANGED <<ri, rebooting, noVM, upToDate, rebuilding>>
       ELSE /\ noVM' = IF server = "none" THEN noVM \cup {router} ELSE noVM
            /\ upToDate' = IF server = "latest"
                           THEN upToDate \cup {router} ELSE upToDate
            /\ IF Marked(server)
               THEN /\ rebuilding' = rebuilding \cup {router}
                    /\ rebooting' = Append(rebooting, router)
               ELSE UNCHANGED <<rebuilding, rebooting>>
            /\ ri' = ri + 1
            /\ pc' = "resolve"
    /\ UNCHANGED <<routers, batch, ci, bi, total, queue, active, shutdown,
                   ji, rebuilt, enq, intr>>
    /\ UNCHANGED wrk

D_Resolve == \E server \in ResolveAnswers : ResolveWith(server)

\* D_Enqueue without `if not rebooting: continue`
D_Enqueue_NoSkip ==
    /\ pc = "resolve"
    /\ ri > Len(chunk)
    /\ queue' = queue \o rebooting
    /\ enq' = [r \in RouterIds |->
                 IF r \in Range(rebooting) THEN enq[r] + 1 ELSE enq[r]]
    /\ bi' = 1
    /\ pc' = IF rebooting = <<>> THEN "wait" ELSE "rebuild"
    /\ ri' = 1
    /\ UNCHANGED <<routers, batch, ci, rebooting, total, active, shutdown, ji,
                   noVM, upToDate, rebuilding, rebuilt, intr>>
    /\ UNCHANGED wrk

\* after the loop: `if not rebooting: continue`, self.queue.extend(rebooting)
D_Enqueue ==
    /\ pc = "resolve"
    /\ ri > Len(chunk)
    /\ IF rebooting = <<>>
       THEN /\ ci' = ci + 1
            /\ pc' = "for"
            /\ UNCHANGED <<queue, enq, bi>>
       ELSE /\ queue' = queue \o rebooting
            /\ enq' = [r \in RouterIds |->
                         IF r \in Range(rebooting) THEN enq[r] + 1 ELSE enq[r]]
            /\ bi' = 1
            /\ pc' = "rebuild"
            /\ UNCHANGED ci
    /\ ri' = 1
    /\ UNCHANGED <<routers, batch, rebooting, total, active, shutdown, ji,
                   noVM, upToDate, rebuilding, rebuilt, intr>>
    /\ UNCHANGED wrk

\* LastRebuild with the loop left after its first iteration
LastRebuild_First(k) == k >= 1

\* `for router in rebooting` has no router left after position k
LastRebuild(k) == k >= Len(rebooting)

\* one iteration of `for router in rebooting: self.app.run([...])`; after the
\* last one total = len(rebooting) and the two "Waiting" lines are printed
D_Rebuild ==
    /\ pc = "rebuild"
    /\ rebuilt' = [rebuilt EXCEPT ![rebooting[bi]] = @ + 1]
    /\ \E raised \in BOOLEAN :
        IF raised
        THEN /\ pc' = "crashed"
             /\ UNCHANGED <<bi, total>>
        ELSE IF LastRebuild(bi)
             THEN /\ bi' = 1
                  /\ total' = Len(rebooting)
                  /\ pc' = "wait"
             ELSE /\ bi' = bi + 1
                  /\ pc' = "rebuild"
                  /\ UNCHANGED total
    /\ UNCHANGED <<routers, batch, ci, ri, rebooting, queue, active,
                   shutdown, ji, noVM, upToDate, rebuilding, enq, intr>>
    /\ UNCHANGED wrk

\* len(self.active) < len(rebooting)
Waiting == Len(active) < Len(rebooting)

\* while len(self.active) < len(rebooting):
D_WaitCheck ==
    /\ pc = "wait"
    /\ IF Waiting
       THEN /\ pc' = "wait_body"
            /\ UNCHANGED <<ci, total>>
       ELSE /\ ci' = ci + 1
            /\ total' = 0
            /\ pc' = "for"
    /\ UNCHANGED <<routers, batch, ri, rebooting, bi, queue, active,
                   shutdown, ji, noVM, upToDate, rebuilding, rebuilt, enq, intr>>
    /\ UNCHANGED wrk

\* the body of the while loop, up to time.sleep(5)
D_WaitBody ==
    /\ pc = "wait_body"
    /\ LET new_total == Len(rebooting) - Len(active) IN
       IF total # new_total
       THEN /\ total' = new_total
            /\ pc' = IF new_total # 0 THEN "sleep" ELSE "wait"
       ELSE /\ pc' = "wait"
            /\ UNCHANGED total
    /\ UNCHANGED <<routers, batch, ci, ri, rebooting, bi, queue, active,
                   shutdown, ji, noVM, upToDate, rebuilding, rebuilt, enq, intr>>
    /\ UNCHANGED wrk

\* time.sleep(5) returns
D_Sleep ==
    /\ pc = "sleep"
    /\ pc' = "wait"
    /\ UNCHANGED <<routers, batch, ci, ri, rebooting, bi, total, queue,
                   active, shutdown, ji, noVM, upToDate, rebuilding, rebuilt, enq, intr>>
    /\ UNCHANGED wrk

\* the positions of the driver inside `try: while ...`
InWait == pc \in {"wait", "wait_body", "sleep"}

\* KeyboardInterrupt inside the try: control goes to the except clause
D_Interrupt ==
    /\ InWait
    /\ intr < MaxInterrupts
    /\ intr' = intr + 1
    /\ pc' = "abort"
    /\ UNCHANGED <<routers, batch, ci, ri, rebooting, bi, total, queue,
                   active, shutdown, ji, noVM, upToDate, rebuilding, rebuilt, enq>>
    /\ UNCHANGED wrk

\* except KeyboardInterrupt: try: cprint("Continuing ..."); continue
D_AbortContinue ==
    /\ pc = "abort"
    /\ ci' = ci + 1
    /\ total' = 0
    /\ pc' = "for"
    /\ UNCHANGED <<routers, batch, ri, rebooting, bi, queue, active,
                   shutdown, ji, noVM, upToDate, rebuilding, rebuilt, enq, intr>>
    /\ UNCHANGED wrk

\* D_InterruptAgain without the inner try: the second interrupt propagates
D_InterruptAgain_Propagates ==
    /\ pc = "abort"
    /\ intr < MaxInterrupts
    /\ intr' = intr + 1
    /\ pc' = "crashed"
    /\ UNCHANGED <<routers, batch, ci, ri, rebooting, bi, total, queue,
                   active, shutdown, ji, noVM, upToDate, rebuilding, rebuilt,
                   enq>>
    /\ UNCHANGED <<wpc, wrouter, wold, wpop, errs, script, cloud>>

\* a KeyboardInterrupt inside the inner try: except KeyboardInterrupt: continue
D_InterruptAgain ==
    /\ pc = "abort"
    /\ intr < MaxInterrupts
    /\ intr' = intr + 1
    /\ ci' = ci + 1
    /\ total' = 0
    /\ pc' = "for"
    /\ UNCHANGED <<routers, batch, ri, rebooting, bi, queue, active,
                   shutdown, ji, noVM, upToDate, rebuilding, rebuilt, enq>>
    /\ UNCHANGED wrk

\* a KeyboardInterrupt anywhere else in take_action is not caught
D_InterruptUncaught ==
    /\ Running
    /\ ~InWait
    /\ pc # "abort"
    /\ intr < MaxInterrupts
    /\ intr' = intr + 1
    /\ pc' = "crashed"
    /\ UNCHANGED <<routers, batch, ci, ri, rebooting, bi, total, queue,
                   active, shutdown, ji, noVM, upToDate, rebuilding, rebuilt, enq>>
    /\ UNCHANGED wrk

\* RouterBatchedRebuild.THREAD_SHUTDOWN.set()
D_Shutdown ==
    /\ pc = "shutdown"
    /\ shutdown' = TRUE
    /\ ji' = 1
    /\ pc' = "join"
    /\ UNCHANGED <<routers, batch, ci, ri, rebooting, bi, total, queue,
                   active, noVM, upToDate, rebuilding, rebuilt, enq, intr>>
    /\ UNCHANGED wrk

\* a thread has ended: it left check_alive, by return or by exception
Ended(w) == wpc[w] \in {"exited", "dead"}

\* Joined without the join: the driver does not wait for the thread
Joined_NoWait(t) == TRUE

\* t.join() returns
Joined(t) == Ended(t)

\* for t in threads: t.join()
D_Join ==
    /\ pc = "join"
    /\ IF ji > NumThreads(batch)
       THEN /\ pc' = "done"
            /\ UNCHANGED ji
       ELSE /\ Joined(ji)
            /\ ji' = ji + 1
            /\ pc' = "join"
    /\ UNCHANGED <<routers, batch, ci, ri, rebooting, bi, total, queue,
                   active, shutdown, noVM, upToDate, rebuilding, rebuilt, enq, intr>>
    /\ UNCHANGED wrk

(***************************************************************************)
(* The convergence worker: check_alive                                     *)
(***************************************************************************)

\* W_PopCheck without the test of the event: pop() goes on to queue.pop()
W_PopCheck_NoShutdownTest(w) ==
    /\ Running
    /\ wpc[w] = "pop_check"
    /\ wpc' = [wpc EXCEPT ![w] = "pop_try"]
    /\ UNCHANGED <<wrouter, wold, wpop, errs, queue, active, shutdown>>
    /\ UNCHANGED drv
    /\ UNCHANGED <<script, cloud>>

\* pop(): if RouterBatchedRebuild.THREAD_SHUTDOWN.is_set(): return None, None
\* (router is then None and the while loop of check_alive is not entered)
W_PopCheck(w) ==
    /\ Running
    /\ wpc[w] = "pop_check"
    /\ IF shutdown
       THEN /\ wpc' = [wpc EXCEPT ![w] = "exited"]
            /\ wrouter' = [wrouter EXCEPT ![w] = NoRouter]
            /\ wold' = [wold EXCEPT ![w] = NoId]
       ELSE /\ wpc' = [wpc EXCEPT ![w] = "pop_try"]
            /\ UNCHANGED <<wrouter, wold>>
    /\ UNCHANGED <<wpop, errs, queue, active, shutdown>>
    /\ UNCHANGED drv
    /\ UNCHANGED <<script, cloud>>

\* pop(): try: router = queue.pop()  except IndexError: time.sleep(1)
W_PopTry(w) ==
    /\ Running
    /\ wpc[w] = "pop_try"
    /\ IF queue = <<>>
       THEN /\ wpc' = [wpc EXCEPT ![w] = "pop_sleep"]
            /\ UNCHANGED <<queue, wpop>>
       ELSE /\ wpop' = [wpop EXCEPT ![w] = queue[Len(queue)]]
            /\ queue' = SubSeq(queue, 1, Len(queue) - 1)
            /\ wpc' = [wpc EXCEPT ![w] = "baseline"]
    /\ UNCHANGED <<wrouter, wold, errs, active, shutdown>>
    /\ UNCHANGED drv
    /\ UNCHANGED <<script, cloud>>

\* pop(): time.sleep(1) returns
W_PopWake(w) ==
    /\ Running
    /\ wpc[w] = "pop_sleep"
    /\ wpc' = [wpc EXCEPT ![w] = "pop_check"]
    /\ UNCHANGED <<wrouter, wold, wpop, errs, queue, active, shutdown>>
    /\ UNCHANGED drv
    /\ UNCHANGED <<script, cloud>>

\* except Exception as e: cprint(... router['id'] ...); queue.append(router);
\* continue   -- with check_alive's local router, which the loop keeps
Requeue(w) ==
    /\ queue' = Append(queue, wrouter[w])
    /\ wpc' = [wpc EXCEPT ![w] = "loop_check"]
    /\ wpop' = [wpop EXCEPT ![w] = NoRouter]
    /\ UNCHANGED <<wrouter, wold, active>>

\* the thread is left by an exception nothing catches
Die(w) ==
    /\ wpc' = [wpc EXCEPT ![w] = "dead"]
    /\ wrouter' = [wrouter EXCEPT ![w] = NoRouter]
    /\ wold' = [wold EXCEPT ![w] = NoId]
    /\ wpop' = [wpop EXCEPT ![w] = NoRouter]
    /\ UNCHANGED <<queue, active>>

\* What self.get_instance(router) answers a worker: None, a server with an
\* id and a status, or an exception of the client.
NoServer == [kind |-> "none", id |-> NoId, status |-> "-"]
ServerError == [kind |-> "raise", id |-> NoId, status |-> "-"]
Servers == [kind : {"server"}, id : InstanceIds, status : {"ACTIVE", "BUILD"}]
ServerAnswers == {NoServer, ServerError} \cup Servers

\* pop(): return router, getattr(self.get_instance(router), 'id', None)
\* and the assignment `router, old_uuid = pop()` of the caller: line 313 is
\* outside the try, line 335 inside it.
BaselineWith(w, server) ==
    /\ wpc[w] = "baseline"
    /\ IF server.kind = "raise"
       THEN /\ errs' = errs + 1
            /\ IF wrouter[w] = NoRouter THEN Die(w) ELSE Requeue(w)
       ELSE /\ wrouter' = [wrouter EXCEPT ![w] = wpop[w]]
            /\ wold' = [wold EXCEPT ![w] = server.id]
            /\ wpop' = [wpop EXCEPT ![w] = NoRouter]
            /\ wpc' = [wpc EXCEPT ![w] = "loop_check"]
            /\ UNCHANGED <<errs, queue, active>>
    /\ UNCHANGED shutdown
    /\ UNCHANGED drv

\* the baseline lookup of a pop(), nova answering anything
W_Baseline(w) ==
    /\ Running
    /\ \E server \in ServerAnswers :
        /\ server.kind = "raise" => errs < MaxErrors
        /\ BaselineWith(w, server)
    /\ UNCHANGED <<script, cloud>>

\* W_LoopCheck without the test of the event in the while condition
W_LoopCheck_NoShutdownTest(w) ==
    /\ Running
    /\ wpc[w] = "loop_check"
    /\ wpc' = [wpc EXCEPT ![w] = "poll"]
    /\ UNCHANGED <<wrouter, wold, wpop, errs, queue, active, shutdown>>
    /\ UNCHANGED drv
    /\ UNCHANGED <<script, cloud>>

\* while router and not RouterBatchedRebuild.THREAD_SHUTDOWN.is_set():
\* and, after the loop, cprint('Thread %d is exiting...')
W_LoopCheck(w) ==
    /\ Running
    /\ wpc[w] = "loop_check"
    /\ IF shutdown
       THEN /\ wpc' = [wpc EXCEPT ![w] = "exited"]
            /\ wrouter' = [wrouter EXCEPT ![w] = NoRouter]
            /\ wold' = [wold EXCEPT ![w] = NoId]
       ELSE /\ wpc' = [wpc EXCEPT ![w] = "poll"]
            /\ UNCHANGED <<wrouter, wold>>
    /\ UNCHANGED <<wpop, errs, queue, active, shutdown>>
    /\ UNCHANGED drv
    /\ UNCHANGED <<script, cloud>>

\* What self.neutron.show_router(id).get('router', {}) gives: a router with a
\* status, {} when the answer has no 'router', or an exception of the client.
ShowAnswers == {"ACTIVE", "DOWN", "norouter", "raise"}

\* IsAlive without the test `if not changed: continue`
IsAlive_AnyId(status, server, old_uuid) ==
    /\ server.kind = "server"
    /\ server.status = "ACTIVE"
    /\ status = "ACTIVE"

\* IsAlive without the test `if server.status != 'ACTIVE': continue`
IsAlive_AnyStatus(status, server, old_uuid) ==
    /\ server.kind = "server"
    /\ old_uuid # server.id
    /\ status = "ACTIVE"

\* lines 321-329: the four tests that end in `continue`
IsAlive(status, server, old_uuid) ==
    /\ server.kind = "server"
    /\ server.status = "ACTIVE"
    /\ old_uuid # server.id
    /\ status = "ACTIVE"

\* One iteration of the while loop with the given answers of the clients.
\* With router = {} get_instance raises KeyError at router['id'], and so does
\* the except clause when it formats its message: the thread is left.
PollWith(w, show, server) ==
    /\ wpc[w] = "poll"
    /\ IF show = "norouter"
       THEN /\ errs' = errs + 1
            /\ Die(w)
       ELSE IF show = "raise" \/ server.kind = "raise"
       THEN /\ errs' = errs + 1
            /\ Requeue(w)
       ELSE IF IsAlive(show, server, wold[w])
       THEN /\ active' = Append(active, wrouter[w])
            /\ wpc' = [wpc EXCEPT ![w] = "pop_check"]
            /\ UNCHANGED <<wrouter, wold, wpop, errs, queue>>
       ELSE /\ wpc' = [wpc EXCEPT ![w] = "loop_check"]
            /\ UNCHANGED <<wrouter, wold, wpop, errs, queue, active>>
    /\ UNCHANGED shutdown
    /\ UNCHANGED drv

Raises(show, server) ==
    show \in {"norouter", "raise"} \/ server.kind = "raise"

W_Poll(w) ==
    /\ Running
    /\ \E show \in ShowAnswers, server \in ServerAnswers :
        /\ Raises(show, server) => errs < MaxErrors
        /\ PollWith(w, show, server)
    /\ UNCHANGED <<script, cloud>>

Next ==
    \/ D_Start
    \/ D_NextChunk
    \/ D_ClearActive
    \/ D_Resolve
    \/ D_Enqueue
    \/ D_Rebuild
    \/ D_WaitCheck
    \/ D_WaitBody
    \/ D_Sleep
    \/ D_Interrupt
    \/ D_AbortContinue
    \/ D_InterruptAgain
    \/ D_InterruptUncaught
    \/ D_Shutdown
    \/ D_Join
    \/ \E w \in Threads :
        \/ W_PopCheck(w)
        \/ W_PopTry(w)
        \/ W_PopWake(w)
        \/ W_Baseline(w)
        \/ W_LoopCheck(w)
        \/ W_Poll(w)

Spec == Init /\ [][Next]_vars

\* the steps of worker thread w
Worker(w) ==
    \/ W_PopCheck(w)
    \/ W_PopTry(w)
    \/ W_PopWake(w)
    \/ W_Baseline(w)
    \/ W_LoopCheck(w)
    \/ W_Poll(w)

\* the steps the driver takes by itself (no KeyboardInterrupt)
Driver ==
    \/ D_Start
    \/ D_NextChunk
    \/ D_ClearActive
    \/ D_Resolve
    \/ D_Enqueue
    \/ D_Rebuild
    \/ D_WaitCheck
    \/ D_WaitBody
    \/ D_Sleep
    \/ D_AbortContinue
    \/ D_Shutdown
    \/ D_Join

\* Every thread that can run is scheduled again and again, and the calls of
\* the clients and time.sleep return.
FairSpec ==
    /\ Spec
    /\ WF_vars(Driver)
    /\ \A w \in Threads : WF_vars(Worker(w))

TypeOK ==
    /\ pc \in {"init", "for", "clear_active", "resolve", "rebuild", "wait",
               "wait_body", "sleep", "abort", "shutdown", "join", "done",
               "crashed"}
    /\ Range(queue) \subseteq RouterIds
    /\ Range(active) \subseteq RouterIds
    /\ shutdown \in BOOLEAN
    /\ errs \in 0..MaxErrors
    /\ intr \in 0..MaxInterrupts

(***************************************************************************)
(* check_alive with scripted clients, as in test_check_alive_*: one router *)
(* r, show_router always answering {'router': r}, get_instance answering   *)
(* from a generator that sets THREAD_SHUTDOWN before its last answer.  The *)
(* first answer of the generator, taken by pop(), is script.old.           *)
(***************************************************************************)

\* the Mock(id=..., status=...) and None answers of the generators
ScriptServers ==
    {NoServer} \cup
    {[kind |-> "server", id |-> 1, status |-> "ACTIVE"]} \cup
    [kind : {"server"}, id : {2}, status : {"DOWN", "BUILD", "ACTIVE"}]

Scripts ==
    [answers : UNION {[1..n -> ScriptServers] : n \in 1..MaxScript},
     pos : {0},
     show : {"ACTIVE", "DOWN"},
     old : {NoId} \cup InstanceIds]

\* check_alive([r], deque()) after `router, old_uuid = pop()`
Init_Poll ==
    /\ pc = "wait"
    /\ routers = <<1>>
    /\ batch = 1
    /\ ci = 0
    /\ ri = 1
    /\ rebooting = <<1>>
    /\ bi = 1
    /\ total = 1
    /\ queue = <<>>
    /\ active = <<>>
    /\ shutdown = FALSE
    /\ ji = 1
    /\ script \in Scripts
    /\ cloud = NoCloud
    /\ wpc = [w \in Threads |-> IF w = 1 THEN "loop_check" ELSE "idle"]
    /\ wrouter = [w \in Threads |-> IF w = 1 THEN 1 ELSE NoRouter]
    /\ wold = [w \in Threads |-> IF w = 1 THEN script.old ELSE NoId]
    /\ wpop = [w \in Threads |-> NoRouter]
    /\ noVM = {}
    /\ upToDate = {}
    /\ rebuilding = {1}
    /\ rebuilt = [r \in RouterIds |-> IF r = 1 THEN 1 ELSE 0]
    /\ enq = [r \in RouterIds |-> IF r = 1 THEN 1 ELSE 0]
    /\ errs = 0
    /\ intr = 0

\* the generator: RouterBatchedRebuild.THREAD_SHUTDOWN.set() before the last
\* yield, inside the get_instance call of the poll that takes it
G_SetShutdown ==
    /\ \E w \in Threads : wpc[w] = "poll"
    /\ script.pos + 1 = Len(script.answers)
    /\ ~shutdown
    /\ shutdown' = TRUE
    /\ UNCHANGED <<queue, active, script, cloud>>
    /\ UNCHANGED <<wpc, wrouter, wold, wpop, errs>>
    /\ UNCHANGED drv

\* one iteration of the while loop, the clients answering from the script
W_PollScript(w) ==
    /\ script.pos < Len(script.answers)
    /\ script.pos + 1 = Len(script.answers) => shutdown
    /\ PollWith(w, script.show, script.answers[script.pos + 1])
    /\ script' = [script EXCEPT !.pos = @ + 1]
    /\ UNCHANGED cloud

PollNext ==
    \/ G_SetShutdown
    \/ \E w \in Threads :
        \/ W_LoopCheck(w)
        \/ W_PollScript(w)
        \/ W_PopCheck(w)
        \/ W_PopTry(w)
        \/ W_PopWake(w)

PollSpec == Init_Poll /\ [][PollNext]_vars

(***************************************************************************)
(* chunked by itself: the for loop of take_action over lists of any length *)
(* and chunk sizes of any size, as in test_chunked                         *)
(***************************************************************************)

\* for i, chunk in enumerate(self.chunked(routers, batch)) on range(n)
Init_Chunk ==
    /\ pc = "for"
    /\ \E n \in 0..MaxList : routers = [k \in 1..n |-> k]
    /\ batch \in 1..MaxChunk
    /\ ci = 0
    /\ ri = 1
    /\ rebooting = <<>>
    /\ bi = 1
    /\ total = 0
    /\ queue = <<>>
    /\ active = <<>>
    /\ shutdown = FALSE
    /\ ji = 1
    /\ wpc = [w \in Threads |-> "idle"]
    /\ wrouter = [w \in Threads |-> NoRouter]
    /\ wold = [w \in Threads |-> NoId]
    /\ wpop = [w \in Threads |-> NoRouter]
    /\ noVM = {}
    /\ upToDate = {}
    /\ rebuilding = {}
    /\ rebuilt = [r \in RouterIds |-> 0]
    /\ enq = [r \in RouterIds |-> 0]
    /\ errs = 0
    /\ intr = 0
    /\ script = NoScript
    /\ cloud = NoCloud

\* the for loop up to `if not rebooting: continue`
ChunkNext ==
    \/ D_NextChunk
    \/ D_ClearActive
    \/ D_Resolve
    \/ D_Enqueue

ChunkSpec == Init_Chunk /\ [][ChunkNext]_vars

(***************************************************************************)
(* take_action and check_alive against a cloud that carries out the        *)
(* rebuilds: `router rebuild` makes the orchestrator delete the router's   *)
(* instance and boot a new one, which becomes and stays ACTIVE, and then   *)
(* the router becomes and stays ACTIVE.  The clients answer from the state *)
(* of that cloud; no client of a worker raises and no KeyboardInterrupt    *)
(* comes.                                                                  *)
(***************************************************************************)

\* inst: "old" the instance before the rebuild (id 1, ACTIVE), "none" no
\* instance, "building" the new instance (id 2, BUILD), "up" the new
\* instance (id 2, ACTIVE); router: the router's status; image: whether the
\* first instance runs router_image_uuid
Clouds ==
    [RouterIds -> [inst : {"old"}, router : {"ACTIVE"},
                   image : {"latest", "outdated"}]
                  \cup [inst : {"none"}, router : {"DOWN"},
                        image : {"outdated"}]]

\* self.get_instance(router) of a worker, answered by the cloud
CloudServer(r) ==
    CASE cloud[r].inst = "old" ->
            [kind |-> "server", id |-> 1, status |-> "ACTIVE"]
      [] cloud[r].inst = "none" -> NoServer
      [] cloud[r].inst = "building" ->
            [kind |-> "server", id |-> 2, status |-> "BUILD"]
      [] cloud[r].inst = "up" ->
            [kind |-> "server", id |-> 2, status |-> "ACTIVE"]

\* self.neutron.show_router(id)['router']['status'], answered by the cloud
CloudShow(r) == cloud[r].router

\* self.get_instance(router) of the driver and its image test
CloudImage(r) ==
    IF cloud[r].inst = "none" THEN "none" ELSE cloud[r].image

Init_Live ==
    /\ pc = "init"
    /\ routers = <<>>
    /\ batch = 1
    /\ ci = 0
    /\ ri = 1
    /\ rebooting = <<>>
    /\ bi = 1
    /\ total = 0
    /\ queue = <<>>
    /\ active = <<>>
    /\ shutdown = FALSE
    /\ ji = 1
    /\ wpc = [w \in Threads |-> "idle"]
    /\ wrouter = [w \in Threads |-> NoRouter]
    /\ wold = [w \in Threads |-> NoId]
    /\ wpop = [w \in Threads |-> NoRouter]
    /\ noVM = {}
    /\ upToDate = {}
    /\ rebuilding = {}
    /\ rebuilt = [r \in RouterIds |-> 0]
    /\ enq = [r \in RouterIds |-> 0]
    /\ errs = 0
    /\ intr = 0
    /\ script = NoScript
    /\ cloud \in Clouds

\* one iteration of `for router in chunk`, the cloud answering
L_Resolve ==
    /\ pc = "resolve"
    /\ ri <= Len(chunk)
    /\ ResolveWith(CloudImage(chunk[ri]))

\* the baseline lookup of a pop(), the cloud answering
L_Baseline(w) ==
    /\ Running
    /\ wpc[w] = "baseline"
    /\ BaselineWith(w, CloudServer(wpop[w]))
    /\ UNCHANGED <<script, cloud>>

\* one iteration of the while loop, the cloud answering
L_Poll(w) ==
    /\ Running
    /\ wpc[w] = "poll"
    /\ PollWith(w, CloudShow(wrouter[w]), CloudServer(wrouter[w]))
    /\ UNCHANGED <<script, cloud>>

\* a step of the cloud for router r, once its rebuild has been issued
CloudStep(r, from, to, status) ==
    /\ rebuilt[r] >= 1
    /\ cloud[r].inst = from
    /\ cloud' = [cloud EXCEPT ![r].inst = to, ![r].router = status]
    /\ UNCHANGED <<queue, active, shutdown, script>>
    /\ UNCHANGED <<wpc, wrouter, wold, wpop, errs>>
    /\ UNCHANGED drv

\* the instance of the router is deleted
E_Delete(r) == CloudStep(r, "old", "none", "DOWN")

\* the new instance is booted
E_Boot(r) == CloudStep(r, "none", "building", "DOWN")

\* the new instance becomes ACTIVE
E_Active(r) == CloudStep(r, "building", "up", "DOWN")

\* the router becomes ACTIVE on its new instance
E_RouterUp(r) ==
    /\ cloud[r].router # "ACTIVE"
    /\ CloudStep(r, "up", "up", "ACTIVE")

LiveDriver ==
    \/ D_Start
    \/ D_NextChunk
    \/ D_ClearActive
    \/ L_Resolve
    \/ D_Enqueue
    \/ D_Rebuild
    \/ D_WaitCheck
    \/ D_WaitBody
    \/ D_Sleep
    \/ D_Shutdown
    \/ D_Join

LiveWorker(w) ==
    \/ W_PopCheck(w)
    \/ W_PopTry(w)
    \/ W_PopWake(w)
    \/ L_Baseline(w)
    \/ W_LoopCheck(w)
    \/ L_Poll(w)

LiveCloud(r) ==
    \/ E_Delete(r)
    \/ E_Boot(r)
    \/ E_Active(r)
    \/ E_RouterUp(r)

LiveNext ==
    \/ LiveDriver
    \/ \E w \in Threads : LiveWorker(w)
    \/ \E r \in RouterIds : LiveCloud(r)

LiveSpec == Init_Live /\ [][LiveNext]_vars

\* Every thread that can run is scheduled again and again, the calls of the
\* clients and time.sleep return, and the cloud carries out every rebuild.
FairLive ==
    /\ LiveSpec
    /\ WF_vars(LiveDriver)
    /\ \A w \in Threads : WF_vars(LiveWorker(w))
    /\ \A r \in RouterIds : WF_vars(LiveCloud(r))

(***************************************************************************)
(* Properties                                                              *)
(***************************************************************************)

\* i of the chunk that holds router r of the listing
ChunkIdx(r) == CHOOSE k \in 0..(Len(chunks) - 1) : r \in Range(chunks[k + 1])

\* the driver is past the rebuilds of router r's chunk: it waits on that
\* chunk, handles the interrupt of that wait, or has gone on to a later chunk
Settled(r) ==
    \/ ChunkIdx(r) < ci
    \/ ChunkIdx(r) = ci /\ (InWait \/ pc = "abort")

\* C1: whenever the wait on a chunk ends without an interrupt (the while
\* condition is found false), every router of rebooting has been appended to
\* active by a worker since the active.clear() of that chunk.
C1_BatchBarrier ==
    [][(pc = "wait" /\ pc' = "for") =>
          \A r \in Range(rebooting) : r \in Range(active)]_vars

\* the four conditions of C2, on the answers of one poll
C2_AllFour(show, server, old_uuid) ==
    /\ server.kind = "server"
    /\ server.status = "ACTIVE"
    /\ server.id # old_uuid
    /\ show = "ACTIVE"

\* the answers of a poll in which no client raises
C2_Shows == {"ACTIVE", "DOWN"}
C2_Servers == {NoServer} \cup Servers

\* C2: a poll whose answers satisfy all four conditions (server exists,
\* server ACTIVE, server id differs from the baseline old_uuid, router ACTIVE)
\* appends the router to active; a poll with any other answers changes neither
\* queue nor active; and active grows by no other step.
C2_ConvergenceCondition ==
    [][/\ \A w \in Threads, show \in C2_Shows, server \in C2_Servers :
            PollWith(w, show, server) =>
               IF C2_AllFour(show, server, wold[w])
               THEN active' = Append(active, wrouter[w]) /\ queue' = queue
               ELSE active' = active /\ queue' = queue
       /\ Len(active') > Len(active) =>
            \E w \in Threads, show \in C2_Shows, server \in C2_Servers :
               /\ C2_AllFour(show, server, wold[w])
               /\ PollWith(w, show, server)]_vars

\* a worker has just appended its router to active
C2_Witness ==
    \E w \in Threads :
        /\ wpc[w] = "pop_check"
        /\ wrouter[w] # NoRouter
        /\ wrouter[w] \in Range(active)
        /\ wold[w] # NoId

\* C3 as stated: a router reported "No VM found" is not in rebooting, is not
\* put on queue and no rebuild is issued for it.
C3_SkipOnMissing ==
    \A r \in noVM :
        r \notin Range(rebooting) /\ enq[r] = 0 /\ rebuilt[r] = 0

\* C3 as amended: a router for which get_instance answers None is reported
\* "No VM found" and then handled like an out-of-date router: it is reported
\* "Rebuilding", appended to rebooting, and once the driver is past the
\* rebuilds of its chunk it has been put on queue once and rebuilt once.
C3_MissingIsRebuilt ==
    /\ [][ResolveWith("none") =>
             /\ noVM' = noVM \cup {chunk[ri]}
             /\ rebuilding' = rebuilding \cup {chunk[ri]}
             /\ rebooting' = Append(rebooting, chunk[ri])]_vars
    /\ [](\A r \in noVM :
             /\ r \in rebuilding
             /\ r \notin upToDate
             /\ Settled(r) => enq[r] = 1 /\ rebuilt[r] = 1)

\* the driver waits on a chunk one of whose routers had no instance
C3_Witness ==
    \E r \in noVM :
        InWait /\ r \in Range(rebooting) /\ enq[r] = 1 /\ rebuilt[r] = 1

\* C4: a router for whose instance get_instance answers the target image is
\* reported up to date, is not appended to rebooting, is never put on queue
\* and no rebuild is ever issued for it.
C4_SkipUpToDate ==
    /\ [][ResolveWith("latest") =>
             /\ upToDate' = upToDate \cup {chunk[ri]}
             /\ rebooting' = rebooting
             /\ rebuilding' = rebuilding]_vars
    /\ [](\A r \in upToDate :
             /\ r \notin rebuilding
             /\ r \notin Range(rebooting)
             /\ r \notin Range(queue)
             /\ enq[r] = 0
             /\ rebuilt[r] = 0)

\* the driver waits on a chunk of which one router was up to date and
\* another one is being rebuilt
C4_Witness ==
    \E r \in upToDate :
        /\ InWait
        /\ ChunkIdx(r) = ci
        /\ \E r2 \in Range(rebooting) : rebuilt[r2] = 1

\* C5: a router for whose instance get_instance answers another image than
\* the target is reported "Rebuilding" and appended to rebooting; no router
\* is ever rebuilt or put on queue twice by the driver; after the last
\* rebuild of a chunk the driver enters the wait; and once the driver is past
\* the rebuilds of the chunk such a router has been rebuilt exactly once and
\* put on queue exactly once.
C5_RebuildAndWait ==
    /\ [][/\ ResolveWith("outdated") =>
                /\ rebuilding' = rebuilding \cup {chunk[ri]}
                /\ rebooting' = Append(rebooting, chunk[ri])
                /\ noVM' = noVM
          /\ (pc = "rebuild" /\ pc' \notin {"rebuild", "crashed"}) =>
                /\ pc' = "wait"
                /\ \A r \in Range(rebooting) : rebuilt'[r] = 1]_vars
    /\ [](\A r \in RouterIds :
             /\ rebuilt[r] <= 1
             /\ enq[r] <= 1
             /\ (r \in rebuilding \ noVM /\ Settled(r)) =>
                   rebuilt[r] = 1 /\ enq[r] = 1)

\* the driver waits on a chunk with an out-of-date router, rebuilt once
C5_Witness ==
    \E r \in rebuilding \ noVM :
        InWait /\ r \in Range(rebooting) /\ rebuilt[r] = 1 /\ enq[r] = 1

\* C6 as stated: when a client raises during a poll of router r (or the answer
\* of show_router makes the poll raise), the step that handles the exception
\* leaves r in queue and does not append to active.
C6_ErrorRequeue ==
    [][\A w \in Threads, show \in ShowAnswers, server \in ServerAnswers :
          (Raises(show, server) /\ PollWith(w, show, server)) =>
             wrouter[w] \in Range(queue') /\ active' = active]_vars

\* C7 as stated: no router is in queue and in active at the same time.
C7_Disjoint == Range(queue) \cap Range(active) = {}

\* C8: while the driver waits on a chunk the rebuild of every router of
\* rebooting has been issued; rebooting holds routers of the current chunk in
\* the order of the listing; the routers of later chunks have not been
\* resolved, reported, rebuilt or put on queue; and i advances by one, only
\* when the while condition is found false, from the interrupt handling, or
\* from a chunk with nothing to rebuild.
C8_BatchOrdering ==
    /\ []((InWait \/ pc = "abort") =>
             \A r \in Range(rebooting) : rebuilt[r] >= 1)
    /\ [](pc \in {"resolve", "rebuild", "wait", "wait_body", "sleep", "abort"} =>
             /\ \A r \in Range(rebooting) : ChunkIdx(r) = ci
             /\ \A j \in 1..Len(rebooting), k \in 1..Len(rebooting) :
                   j < k => rebooting[j] < rebooting[k])
    /\ [](\A r \in Range(routers) :
             ChunkIdx(r) > ci =>
                /\ r \notin noVM \cup upToDate \cup rebuilding
                /\ r \notin Range(queue) \cup Range(active)
                /\ rebuilt[r] = 0
                /\ enq[r] = 0)
    /\ [][ci' # ci =>
             /\ ci' = ci + 1
             /\ pc' = "for"
             /\ \/ pc = "wait" /\ Len(active) >= Len(rebooting)
                \/ pc = "abort"
                \/ pc = "resolve" /\ rebooting = <<>>]_vars

\* the driver waits on the second chunk after the wait on the first chunk,
\* which held a rebuilt router, ended by completion
C8_Witness ==
    /\ InWait
    /\ ci = 1
    /\ intr = 0
    /\ rebuilt[1] = 1
    /\ Len(rebooting) >= 1

\* C9: a KeyboardInterrupt while the driver is in the wait loop takes it to
\* the except clause and changes neither i, THREAD_SHUTDOWN, the position of
\* any worker, queue nor active; from the except clause the driver goes on
\* to the next chunk whether or not a second KeyboardInterrupt arrives there,
\* again without setting THREAD_SHUTDOWN or ending a worker; and the event is
\* set only when every chunk has been gone through.
C9_InterruptHandling ==
    /\ [][(InWait /\ intr' # intr) =>
             /\ pc' = "abort"
             /\ ci' = ci
             /\ UNCHANGED <<shutdown, wpc, queue, active>>]_vars
    /\ [][(pc = "abort" /\ pc' # "abort") =>
             /\ pc' = "for"
             /\ ci' = ci + 1
             /\ UNCHANGED <<shutdown, wpc>>]_vars
    /\ [](pc = "abort" => ~shutdown /\ ci < Len(chunks))
    /\ [](shutdown => ci = Len(chunks))

\* both interrupts arrived during the first of two chunks (the second one in
\* the except clause), the driver resolves the second chunk and a worker
\* still polls
C9_Witness ==
    /\ intr = 2
    /\ Len(chunks) = 2
    /\ ci = 1
    /\ pc = "resolve"
    /\ ~shutdown
    /\ \E w \in Threads : wpc[w] = "poll"

\* a spawned thread has terminated: it left check_alive, or the process
\* ended under it
Terminated(w) == Ended(w) \/ pc = "crashed"

\* C10: THREAD_SHUTDOWN is set only after the for loop over the chunks has
\* ended; take_action returns only when every spawned thread has ended; and
\* under fair scheduling, once the event is set every spawned thread
\* eventually terminates.
C10_ShutdownAndJoin ==
    /\ [](shutdown => ci = Len(chunks) /\ pc \in {"join", "done", "crashed"})
    /\ [](pc = "done" => \A w \in 1..NumThreads(batch) : Ended(w))
    /\ shutdown ~> (\A w \in 1..NumThreads(batch) : Terminated(w))

\* take_action has returned and both threads have left check_alive, after a
\* run in which a router was rebuilt and a wait was interrupted
C10_Witness ==
    /\ pc = "done"
    /\ shutdown
    /\ NumThreads(batch) = 2
    /\ \A w \in 1..NumThreads(batch) : wpc[w] = "exited"
    /\ rebuilt[1] = 1
    /\ intr = 1

\* C11: once THREAD_SHUTDOWN is set, the next step of a worker that is in the
\* time.sleep(1) of pop() takes it to the test of the event, and its step
\* from there ends the thread; neither step pops from queue, appends to queue
\* or to active, or reaches a call of a client (the positions "baseline" and
\* "poll").
C11_ShutdownVisibility ==
    [][\A w \in Threads :
          (shutdown /\ wpc'[w] # wpc[w]) =>
             /\ wpc[w] = "pop_sleep" =>
                   wpc'[w] = "pop_check" /\ queue' = queue /\ active' = active
             /\ wpc[w] = "pop_check" =>
                   wpc'[w] = "exited" /\ queue' = queue /\ active' = active]_vars

\* the event is set while a worker sleeps in pop() and queue still holds a
\* router
C11_Witness ==
    \E w \in Threads : shutdown /\ wpc[w] = "pop_sleep" /\ queue # <<>>

\* C12 as stated: a step of a worker in which a client raises, at the
\* baseline lookup after a pop or during a poll, does not end the thread.
C12_ErrorContainment ==
    [][\A w \in Threads :
          (errs' # errs /\ wpc[w] \in {"baseline", "poll"} /\ wpc'[w] # wpc[w])
             => wpc'[w] # "dead"]_vars

\* C15: the driver is in the rebuild loop, in the wait loop or in its except
\* clause only with a non-empty rebooting (so never with an empty listing);
\* and when the loop over a chunk ends with rebooting empty, the driver's
\* next step goes to the next iteration of the for loop, with nothing put on
\* queue and no rebuild issued.  (The "Waiting" lines are printed on entering
\* the wait loop and inside it only.)
C15_NoWorkNoWait ==
    /\ []((InWait \/ pc \in {"rebuild", "abort"}) => rebooting # <<>>)
    /\ [](routers = <<>> =>
             /\ queue = <<>>
             /\ \A r \in RouterIds : rebuilt[r] = 0 /\ enq[r] = 0)
    /\ [][(/\ pc = "resolve"
           /\ ri > Len(chunk)
           /\ rebooting = <<>>
           /\ pc' # pc
           /\ intr' = intr) =>
             /\ pc' = "for"
             /\ ci' = ci + 1
             /\ UNCHANGED <<queue, enq, rebuilt>>]_vars

\* the driver is at the second chunk after a first chunk whose only router
\* was up to date
C15_Witness ==
    /\ pc = "for"
    /\ ci = 1
    /\ Len(chunks) = 2
    /\ upToDate = {1}
    /\ rebuilt[1] = 0

\* C16 as stated: the step in which a worker handles an exception of a poll
\* by queue.append(router) takes the worker to pop().
C16_RequeueThenPop ==
    [][\A w \in Threads :
          (/\ wpc[w] = "poll"
           /\ errs' # errs
           /\ queue' = Append(queue, wrouter[w])) =>
             wpc'[w] = "pop_check"]_vars

\* a worker holds router r: in check_alive's router or in pop()'s router
Held(r) == \E w \in Threads : wrouter[w] = r \/ wpop[w] = r

\* C17 as stated: while the driver is in the wait loop of a chunk and the
\* event is not set, every router of rebooting is in queue, held by a worker
\* or in active.
C17_NoLostWork ==
    (InWait /\ ~shutdown) =>
       \A r \in Range(rebooting) :
          r \in Range(queue) \/ Held(r) \/ r \in Range(active)

\* C18 as stated: from the resolution of chunk i until the driver goes on to
\* the next chunk, queue and active hold routers of chunk i only.
C18_CurrentBatchOnly ==
    pc \in {"resolve", "rebuild", "wait", "wait_body", "sleep", "abort"} =>
       \A r \in Range(queue) \cup Range(active) : ChunkIdx(r) = ci

\* C19 as stated: once the event is set, a step of a worker that is in a
\* poll appends neither to active nor to queue.
C19_AbandonOnShutdown ==
    [][\A w \in Threads :
          (shutdown /\ wpc[w] = "poll" /\ wpc'[w] # wpc[w]) =>
             active' = active /\ queue' = queue]_vars

\* C19 as amended: once the event is set, a worker that is in a poll ends
\* that one iteration (which may still append to active or to queue) and
\* then leaves at its next test of the event, in the while condition or in
\* pop(), without another poll, pop, append to active or append to queue.
C19_FinishIterationThenExit ==
    [][\A w \in Threads :
          (shutdown /\ wpc'[w] # wpc[w]) =>
             /\ wpc[w] = "poll" =>
                   wpc'[w] \in {"loop_check", "pop_check", "dead"}
             /\ wpc[w] \in {"loop_check", "pop_check"} =>
                   wpc'[w] = "exited" /\ active' = active /\ queue' = queue]_vars

\* the event is set while a worker is in a poll of a router
C19_Witness ==
    \E w \in Threads :
        shutdown /\ wpc[w] = "poll" /\ wrouter[w] # NoRouter

\* C20 as stated: the driver does not come back to the while condition from
\* the body of the loop without time.sleep(5) while the chunk is incomplete.
C20_ThrottledWait ==
    [][(pc = "wait_body" /\ pc' = "wait") =>
          Len(active') >= Len(rebooting')]_vars

\* the four conditions on the k-th scripted answer, against the baseline
ScriptConverges(k) ==
    /\ script.answers[k].kind = "server"
    /\ script.answers[k].status = "ACTIVE"
    /\ script.answers[k].id # script.old
    /\ script.show = "ACTIVE"

\* C13: with scripted clients, after p polls (one show_router and one
\* get_instance answer taken per poll) none of the first p - 1 answers met
\* the four conditions, and the router is in active, once, exactly when the
\* p-th answer meets them; nothing is requeued.  For the baseline 1 and the
\* answers [missing, 2/DOWN, 2/BUILD, 2/ACTIVE] this marks the fourth poll
\* only.  A baseline of None differs from every instance id.
C13_ConvergenceByPollCount ==
    /\ \A k \in 1..(script.pos - 1) : ~ScriptConverges(k)
    /\ active = IF script.pos >= 1 /\ ScriptConverges(script.pos)
                THEN <<1>> ELSE <<>>
    /\ queue = <<>>
    /\ (/\ script.old = NoId
        /\ script.pos >= 1
        /\ script.show = "ACTIVE"
        /\ script.answers[script.pos].kind = "server"
        /\ script.answers[script.pos].status = "ACTIVE") => active = <<1>>

\* the sequence of test_check_alive_vm_rebooting, polled to its end
C13_Witness ==
    /\ script.old = 1
    /\ script.show = "ACTIVE"
    /\ script.answers = <<NoServer,
                          [kind |-> "server", id |-> 2, status |-> "DOWN"],
                          [kind |-> "server", id |-> 2, status |-> "BUILD"],
                          [kind |-> "server", id |-> 2, status |-> "ACTIVE"]>>
    /\ script.pos = 4
    /\ active = <<1>>

RECURSIVE Flatten(_)
Flatten(ss) == IF ss = <<>> THEN <<>> ELSE Head(ss) \o Flatten(Tail(ss))

\* C14: the chunks of chunked(routers, batch) concatenate to routers, all
\* but the last have batch elements, the last has len(routers) mod batch
\* (batch when that is 0), the empty list has no chunk, and the chunk the
\* for loop works on is the ci-th of them.
C14_Chunking ==
    /\ Flatten(chunks) = routers
    /\ \A k \in 1..(Len(chunks) - 1) : Len(chunks[k]) = batch
    /\ chunks # <<>> =>
          Len(chunks[Len(chunks)]) =
             IF Len(routers) % batch = 0 THEN batch ELSE Len(routers) % batch
    /\ routers = <<>> <=> chunks = <<>>
    /\ pc \in {"clear_active", "resolve"} =>
          chunk = [k \in 1..Min(batch, Len(routers) - ci * batch) |->
                     routers[ci * batch + k]]

\* the loop has gone through the chunks of a list of 5 with batch 2
C14_Witness ==
    /\ pc = "shutdown"
    /\ Len(routers) = 5
    /\ batch = 2
    /\ ci = 3

\* the workers that are in the while loop of check_alive with router r
Pollers(r) ==
    {w \in Threads : wrouter[w] = r /\ wpc[w] \in {"loop_check", "poll"}}

\* C22 as stated: while the driver works on a chunk, no router is in the
\* while loop of two workers at once and no router is in active twice, so
\* len(active) is the number of distinct routers in active.
C22_NoDoubleCounting ==
    pc \in {"resolve", "rebuild", "wait", "wait_body", "sleep"} =>
       /\ \A r \in RouterIds : Cardinality(Pollers(r)) <= 1
       /\ Len(active) = Cardinality(Range(active))

\* C21 as stated: under fair scheduling, with a cloud that carries out every
\* rebuild, no interrupt and no error of a worker's client, every router of
\* rebooting the driver waits on is eventually in active, and every wait
\* of the driver ends.
C21_ConvergenceLiveness ==
    /\ \A r \in RouterIds :
          (InWait /\ r \in Range(rebooting)) ~> (r \in Range(active))
    /\ InWait ~> (pc = "for")
====
